---- MODULE Spec2Model ----
(***************************************************************************)
(* Model of cargo-rpl's front end (src/main.rs): the argument router in    *)
(* main, the invocation builder RplCmd::new, the command construction      *)
(* RplCmd::into_std_cmd and the exit-status propagation of process.        *)
(*                                                                         *)
(* Command-line tokens are TLA+ strings.  Option<T> is modelled as a       *)
(* sequence of length at most one: None is <<>>, Some(x) is <<x>>.         *)
(***************************************************************************)
EXTENDS Integers, Sequences, FiniteSets, Bags, TLC

VARIABLES
    argv,       \* env::args(): the raw argument list of the run
    pc,         \* position of the run
    stdout,     \* the bytes the run has written to its standard output
    lint,       \* the local `lint` of main's --explain branch
    old_args,   \* the token sequence handed to RplCmd::new
    rpl_cmd,    \* Option<RplCmd>: the value RplCmd::new returned
    child,      \* Option<Command>: the command built by into_std_cmd
    spawns,     \* number of calls of Command::spawn
    exit_status,\* Option<ExitStatus>: what wait returned for the child
    exit_code,  \* Option<i32>: the code the process exited with
    panic,      \* Option<String>: the message of the panic that ended the run
    ser_in,     \* two analysis-argument lists handed to into_std_cmd
    ser_out     \* Option of the two RPL_ARGS strings built from ser_in

vars == <<argv, pc, stdout, lint, old_args, rpl_cmd, child, spawns, exit_status, panic,
          exit_code, ser_in, ser_out>>

----------------------------------------------------------------------------
(* Bounds *)

MaxArgs == 5
MaxLen == 4
MaxSerLen == 2
MaxExitCode == 3

(* An argument that is not valid Unicode: env::args() panics when its       *)
(* iterator reaches it.                                                    *)
NonUnicode == "<non-unicode>"

(* Tokens a raw argument list is drawn from: every spelling main and       *)
(* RplCmd::new look for, one token ("Foo") that none of them matches, and  *)
(* the argument that is not valid Unicode.                                 *)
Tokens == {"--fix", "--no-deps", "--", "-h", "--help", "-V", "--version", "--explain",
           "Foo", NonUnicode}

(* Tokens a direct call of RplCmd::new is drawn from. *)
NewTokens == {"--fix", "--no-deps", "--", "-h", "--explain", "Foo", "bar"}

(* Entries of an analysis-argument list handed to the serialisation. *)
SerWords == {"", "x", "y", "--no-deps", "x__RPL_HACKERY", "RPL_HACKERY__y", "x__RPL_HACKERY__y"}

SeqsUpTo(S, n) == UNION {[1..k -> S] : k \in 0..n}

----------------------------------------------------------------------------
(* Option and iterator helpers *)

None == <<>>
Some(x) == <<x>>
IsSome(o) == o # <<>>
Unwrap(o) == o[1]
UnwrapOr(o, d) == IF o = <<>> THEN d ELSE o[1]

(* Iterator::skip(n) *)
Skip(s, n) == SubSeq(s, n + 1, Len(s))

(* Iterator::nth(n), n counted from 0 *)
Nth(s, n) == IF n + 1 <= Len(s) THEN Some(s[n + 1]) ELSE None

(* variant: only the long spelling of the help flag is recognised *)
IsHelpLongOnly(a) == a = "--help"

(* the predicates of the closures in main *)
IsHelp(a) == a = "--help" \/ a = "-h"
IsVersion(a) == a = "--version" \/ a = "-V"
IsExplain(a) == a = "--explain"

(* env::args().any(P), hits being the indices of the arguments that        *)
(* satisfy P: the iterator yields the arguments in order and stops at the  *)
(* first hit; it panics when it reaches an argument that is not valid      *)
(* Unicode before that.                                                    *)
ArgsAny(s, hits) ==
    IF \E i \in hits : \A j \in 1..i : s[j] # NonUnicode
    THEN "true"
    ELSE IF \E i \in 1..Len(s) : s[i] = NonUnicode THEN "panic" ELSE "false"

AnyHelp(s) == ArgsAny(s, {i \in 1..Len(s) : IsHelp(s[i])})
AnyVersion(s) == ArgsAny(s, {i \in 1..Len(s) : IsVersion(s[i])})

(* variant: the position of the last "--explain" instead of the first *)
PositionExplainLast(s) ==
    IF \E i \in 1..Len(s) : IsExplain(s[i])
    THEN Some((CHOOSE i \in 1..Len(s) :
                  IsExplain(s[i]) /\ \A j \in (i + 1)..Len(s) : ~IsExplain(s[j])) - 1)
    ELSE None

(* Iterator::position(|a| a == "--explain"), counted from 0 *)
PositionExplain(s) ==
    IF \E i \in 1..Len(s) : IsExplain(s[i])
    THEN Some((CHOOSE i \in 1..Len(s) :
                  IsExplain(s[i]) /\ \A j \in 1..(i - 1) : ~IsExplain(s[j])) - 1)
    ELSE None

(* u8::to_ascii_lowercase on one character *)
AsciiLower(c) ==
    CASE c = "A" -> "a" [] c = "B" -> "b" [] c = "C" -> "c" [] c = "D" -> "d"
      [] c = "E" -> "e" [] c = "F" -> "f" [] c = "G" -> "g" [] c = "H" -> "h"
      [] c = "I" -> "i" [] c = "J" -> "j" [] c = "K" -> "k" [] c = "L" -> "l"
      [] c = "M" -> "m" [] c = "N" -> "n" [] c = "O" -> "o" [] c = "P" -> "p"
      [] c = "Q" -> "q" [] c = "R" -> "r" [] c = "S" -> "s" [] c = "T" -> "t"
      [] c = "U" -> "u" [] c = "V" -> "v" [] c = "W" -> "w" [] c = "X" -> "x"
      [] c = "Y" -> "y" [] c = "Z" -> "z" [] OTHER -> c

(* String::make_ascii_lowercase *)
RECURSIVE MakeAsciiLowercase(_)
MakeAsciiLowercase(s) ==
    IF Len(s) = 0 THEN ""
    ELSE AsciiLower(SubSeq(s, 1, 1)) \o MakeAsciiLowercase(SubSeq(s, 2, Len(s)))

----------------------------------------------------------------------------
(* RplCmd::new *)

(* variant: "--" is skipped and the scan goes on instead of stopping *)
RECURSIVE ScanArgsNoBreak(_, _, _, _)
ScanArgsNoBreak(rest, cargo_subcommand, args, rpl_args) ==
    IF rest = <<>>
    THEN [cargo_subcommand |-> cargo_subcommand, args |-> args,
          rpl_args |-> rpl_args, old_args |-> <<>>]
    ELSE LET arg == Head(rest) IN
         CASE arg = "--fix" ->
                ScanArgsNoBreak(Tail(rest), "fix", args, rpl_args)
           [] arg = "--no-deps" ->
                ScanArgsNoBreak(Tail(rest), cargo_subcommand, args, Append(rpl_args, "--no-deps"))
           [] arg = "--" ->
                ScanArgsNoBreak(Tail(rest), cargo_subcommand, args, rpl_args)
           [] OTHER ->
                ScanArgsNoBreak(Tail(rest), cargo_subcommand, Append(args, arg), rpl_args)

(* The `for arg in old_args.by_ref()` loop: consumes tokens from the       *)
(* iterator `rest` until it is exhausted or "--" has been taken.  The      *)
(* result carries what is left in the iterator.                            *)
RECURSIVE ScanArgs(_, _, _, _)
ScanArgs(rest, cargo_subcommand, args, rpl_args) ==
    IF rest = <<>>
    THEN [cargo_subcommand |-> cargo_subcommand, args |-> args,
          rpl_args |-> rpl_args, old_args |-> <<>>]
    ELSE LET arg == Head(rest) IN
         CASE arg = "--fix" ->
                ScanArgs(Tail(rest), "fix", args, rpl_args)
           [] arg = "--no-deps" ->
                ScanArgs(Tail(rest), cargo_subcommand, args, Append(rpl_args, "--no-deps"))
           [] arg = "--" ->
                [cargo_subcommand |-> cargo_subcommand, args |-> args,
                 rpl_args |-> rpl_args, old_args |-> Tail(rest)]
           [] OTHER ->
                ScanArgs(Tail(rest), cargo_subcommand, Append(args, arg), rpl_args)

(* rpl_args.iter().any(|arg| arg == "--no-deps") *)
AnyNoDeps(s) == \E i \in 1..Len(s) : s[i] = "--no-deps"

(* variant: the rest of the iterator is not collected into rpl_args *)
RplCmdNewNoCollect(input) ==
    LET scanned == ScanArgs(input, "check", <<>>, <<>>)
        appended == scanned.rpl_args
        final == IF scanned.cargo_subcommand = "fix" /\ ~AnyNoDeps(appended)
                 THEN Append(appended, "--no-deps")
                 ELSE appended
    IN [cargo_subcommand |-> scanned.cargo_subcommand,
        args |-> scanned.args,
        rpl_args |-> final]

(* variant: "--fix" selects the subcommand wherever it stands in the input *)
RplCmdNewFixAnywhere(input) ==
    LET scanned == ScanArgs(input, "check", <<>>, <<>>)
        appended == scanned.rpl_args \o scanned.old_args
        subcommand == IF \E i \in 1..Len(input) : input[i] = "--fix"
                      THEN "fix" ELSE "check"
        final == IF subcommand = "fix" /\ ~AnyNoDeps(appended)
                 THEN Append(appended, "--no-deps")
                 ELSE appended
    IN [cargo_subcommand |-> subcommand,
        args |-> scanned.args,
        rpl_args |-> final]

(* variant: the post-pass that implies "--no-deps" is missing *)
RplCmdNewNoSynth(input) ==
    LET scanned == ScanArgs(input, "check", <<>>, <<>>)
    IN [cargo_subcommand |-> scanned.cargo_subcommand,
        args |-> scanned.args,
        rpl_args |-> scanned.rpl_args \o scanned.old_args]

(* variant: "--no-deps" is looked for before the rest is collected *)
RplCmdNewCheckBeforeCollect(input) ==
    LET scanned == ScanArgs(input, "check", <<>>, <<>>)
        appended == scanned.rpl_args \o scanned.old_args
        final == IF scanned.cargo_subcommand = "fix" /\ ~AnyNoDeps(scanned.rpl_args)
                 THEN Append(appended, "--no-deps")
                 ELSE appended
    IN [cargo_subcommand |-> scanned.cargo_subcommand,
        args |-> scanned.args,
        rpl_args |-> final]

RplCmdNew(input) ==
    LET scanned == ScanArgs(input, "check", <<>>, <<>>)
        appended == scanned.rpl_args \o scanned.old_args
        final == IF scanned.cargo_subcommand = "fix" /\ ~AnyNoDeps(appended)
                 THEN Append(appended, "--no-deps")
                 ELSE appended
    IN [cargo_subcommand |-> scanned.cargo_subcommand,
        args |-> scanned.args,
        rpl_args |-> final]

----------------------------------------------------------------------------
(* RplCmd::into_std_cmd *)

Separator == "__RPL_HACKERY__"

(* variant: the separator is put between the entries only *)
RECURSIVE FoldRplArgsJoin(_, _)
FoldRplArgsJoin(s, list) ==
    IF list = <<>> THEN s
    ELSE IF Len(list) = 1 THEN s \o Head(list)
    ELSE FoldRplArgsJoin(s \o Head(list) \o Separator, Tail(list))

(* rpl_args.iter().fold(String::new(), |s, arg| s + arg + "__RPL_HACKERY__") *)
RECURSIVE FoldRplArgs(_, _)
FoldRplArgs(s, list) ==
    IF list = <<>> THEN s
    ELSE FoldRplArgs(s \o Head(list) \o Separator, Tail(list))

(* env::var("CARGO"): None when the variable is not set *)
EnvCargo == {None, Some("my-cargo")}

(* env::current_exe(): None when it returns Err; a path is the sequence of *)
(* its components                                                          *)
CurrentExeResults == {None, Some(<<"bin", "cargo-rpl">>)}

(* cfg!(windows) of the build *)
CfgWindows == FALSE

(* Path::with_file_name *)
WithFileName(path, name) ==
    IF path = <<>> THEN <<name>> ELSE SubSeq(path, 1, Len(path) - 1) \o <<name>>

(* index of the last "." of a file name, 0 when there is none *)
LastDot(f) ==
    IF \E i \in 1..Len(f) : SubSeq(f, i, i) = "."
    THEN CHOOSE i \in 1..Len(f) :
            SubSeq(f, i, i) = "." /\ \A j \in (i + 1)..Len(f) : SubSeq(f, j, j) # "."
    ELSE 0

(* PathBuf::set_extension: the file name's stem followed by "." and ext *)
SetExtension(path, ext) ==
    IF path = <<>> THEN path
    ELSE LET f == path[Len(path)]
             stem == IF LastDot(f) > 1 THEN SubSeq(f, 1, LastDot(f) - 1) ELSE f
         IN SubSeq(path, 1, Len(path) - 1) \o <<stem \o "." \o ext>>

(* RplCmd::path, given the path current_exe returned *)
RplDriverPath(exe) ==
    LET path == WithFileName(exe, "rpl-driver")
    IN IF CfgWindows THEN SetExtension(path, "exe") ELSE path

(* variant: the mutating subcommand also gets "--all-targets" *)
IntoStdCmdAllTargets(self, env_cargo, current_exe) ==
    IF current_exe = None
    THEN [ok |-> FALSE, panic |-> "current executable path invalid"]
    ELSE [ok |-> TRUE,
          cmd |-> [program |-> UnwrapOr(env_cargo, "cargo"),
                   RUSTC_WORKSPACE_WRAPPER |-> RplDriverPath(Unwrap(current_exe)),
                   RPL_ARGS |-> FoldRplArgs("", self.rpl_args),
                   args |-> <<self.cargo_subcommand>> \o self.args \o
                            (IF self.cargo_subcommand = "fix"
                             THEN <<"--all-targets">> ELSE <<>>)]]

(* RplCmd::into_std_cmd, given what env::var("CARGO") and current_exe      *)
(* return: the command (program, the two environment variables, argument   *)
(* list), or the panic of RplCmd::path when current_exe fails.             *)
IntoStdCmd(self, env_cargo, current_exe) ==
    IF current_exe = None
    THEN [ok |-> FALSE, panic |-> "current executable path invalid"]
    ELSE [ok |-> TRUE,
          cmd |-> [program |-> UnwrapOr(env_cargo, "cargo"),
                   RUSTC_WORKSPACE_WRAPPER |-> RplDriverPath(Unwrap(current_exe)),
                   RPL_ARGS |-> FoldRplArgs("", self.rpl_args),
                   args |-> <<self.cargo_subcommand>> \o self.args]]

----------------------------------------------------------------------------
(* ExitStatus of the child: code is Some(c) after a normal exit with code  *)
(* c and None when the child was ended by a signal.                        *)

ExitStatuses == {[code |-> Some(c)] : c \in 0..MaxExitCode} \cup {[code |-> None]}

Success(status) == status.code = Some(0)

(* variant: every failure of the child is reported as 1 *)
ProcessResultAlwaysOne(status) ==
    IF Success(status) THEN 0 ELSE 1

(* the Result<(), i32> of process, as the exit code main ends with *)
ProcessResult(status) ==
    IF Success(status) THEN 0 ELSE UnwrapOr(status.code, -1)

----------------------------------------------------------------------------
(* One run of main *)

Init ==
    /\ argv \in SeqsUpTo(Tokens, MaxArgs)
    /\ pc = "main"
    /\ stdout = ""
    /\ lint = None
    /\ old_args = <<>>
    /\ rpl_cmd = None
    /\ child = None
    /\ spawns = 0
    /\ exit_status = None
    /\ exit_code = None
    /\ panic = None
    /\ ser_in = <<>>
    /\ ser_out = None

(* Stand-ins for the text of help_message(), which ends in a newline, and  *)
(* for the version text of rustc_tools_util::get_version_info!(), which    *)
(* holds none.                                                             *)
HelpText == "help\n"
VersionText == "version"

(* position of the last newline of s, 0 when s has none *)
RECURSIVE LastNewline(_)
LastNewline(s) ==
    IF s = "" THEN 0
    ELSE IF SubSeq(s, Len(s), Len(s)) = "\n" THEN Len(s)
    ELSE LastNewline(SubSeq(s, 1, Len(s) - 1))

(* What println! leaves in the line buffer of the standard output when it  *)
(* comes to the closing newline: the part of the text after its last       *)
(* newline.  The text up to that newline is written through at once.       *)
LineBuffer(text) == SubSeq(text, LastNewline(text) + 1, Len(text))

(* Outcomes of anstream::println! writing text and a closing newline, as   *)
(* seen when the process has ended; `written` is the number of bytes of    *)
(* the line on the standard output then.  Either every write succeeds      *)
(* ("ok"), or a write fails with BrokenPipe (ignored by the macro) or with *)
(* another error (the macro panics).  The failing write leaves at least    *)
(* one byte of the line unwritten when the macro returns.  Bytes written   *)
(* through are lost for good; bytes held in the line buffer, the closing   *)
(* newline with them, are written again when the buffer is flushed at the  *)
(* end of the process, and that flush can fail or succeed, so that the     *)
(* whole line can be out after a failure when the text sat in the buffer.  *)
WriteResults(text) ==
    LET line == text \o "\n" IN
    {[result |-> "ok", written |-> Len(line)]} \cup
    {[result |-> r, written |-> k] :
        r \in {"broken_pipe", "error"},
        k \in 0..(IF LineBuffer(text) = "" THEN Len(line) - 1 ELSE Len(line))}

(* show_help / show_version followed by main's return and the end of the   *)
(* process: the bytes that went out stay on the standard output; the run   *)
(* ends with code 0 unless the macro panics.                               *)
ShowAndReturn(text, w) ==
    /\ stdout' = stdout \o SubSeq(text \o "\n", 1, w.written)
    /\ IF w.result = "error"
       THEN /\ pc' = "panicked"
            /\ panic' = Some("failed printing to stdout")
            /\ exit_code' = exit_code
       ELSE /\ pc' = "exited"
            /\ panic' = panic
            /\ exit_code' = Some(0)

(* main line 23: env::args() meets an argument that is not valid Unicode   *)
(* before any help flag and panics.  A run that gets past line 23 without  *)
(* a help flag has read every argument, so none of the later passes over   *)
(* env::args() can panic.                                                  *)
MainArgsPanic ==
    /\ pc = "main"
    /\ AnyHelp(argv) = "panic"
    /\ pc' = "panicked"
    /\ panic' = Some("argument is not valid Unicode")
    /\ UNCHANGED <<argv, stdout, lint, old_args, rpl_cmd, child, spawns, exit_status,
                   exit_code, ser_in, ser_out>>

(* main, lines 23-26 *)
MainHelp ==
    /\ pc = "main"
    /\ AnyHelp(argv) = "true"
    /\ \E w \in WriteResults(HelpText) : ShowAndReturn(HelpText, w)
    /\ UNCHANGED <<argv, lint, old_args, rpl_cmd, child, spawns, exit_status, ser_in, ser_out>>

(* main, lines 28-31 *)
MainVersion ==
    /\ pc = "main"
    /\ AnyHelp(argv) = "false"
    /\ AnyVersion(argv) = "true"
    /\ \E w \in WriteResults(VersionText) : ShowAndReturn(VersionText, w)
    /\ UNCHANGED <<argv, lint, old_args, rpl_cmd, child, spawns, exit_status, ser_in, ser_out>>

(* main, lines 33-40 *)
MainExplain ==
    /\ pc = "main"
    /\ AnyHelp(argv) = "false"
    /\ AnyVersion(argv) = "false"
    /\ IsSome(PositionExplain(argv))
    /\ LET pos == Unwrap(PositionExplain(argv))
           next == Nth(argv, pos + 1)
       IN IF IsSome(next)
          THEN /\ lint' = Some(MakeAsciiLowercase(Unwrap(next)))
               /\ stdout' = stdout
               /\ pc' = "exited"
               /\ panic' = panic
               /\ exit_code' = Some(0)
          ELSE /\ lint' = lint
               /\ \E w \in WriteResults(HelpText) : ShowAndReturn(HelpText, w)
    /\ UNCHANGED <<argv, old_args, rpl_cmd, child, spawns, exit_status, ser_in, ser_out>>

(* main line 42 and process lines 123-129: RplCmd::new, then into_std_cmd, *)
(* which panics when current_exe fails, then spawn, which either starts    *)
(* the child or fails, and expect then panics.                             *)
ProcessSpawn ==
    /\ pc = "main"
    /\ AnyHelp(argv) = "false"
    /\ AnyVersion(argv) = "false"
    /\ ~IsSome(PositionExplain(argv))
    /\ old_args' = Skip(argv, 2)
    /\ rpl_cmd' = Some(RplCmdNew(old_args'))
    /\ \E env_cargo \in EnvCargo, current_exe \in CurrentExeResults, spawned \in BOOLEAN :
          LET built == IntoStdCmd(Unwrap(rpl_cmd'), env_cargo, current_exe)
          IN IF ~built.ok
             THEN /\ child' = child
                  /\ spawns' = spawns
                  /\ pc' = "panicked"
                  /\ panic' = Some(built.panic)
             ELSE /\ child' = Some(built.cmd)
                  /\ spawns' = spawns + 1
                  /\ IF spawned
                     THEN pc' = "waiting" /\ panic' = panic
                     ELSE pc' = "panicked" /\ panic' = Some("could not run cargo")
    /\ UNCHANGED <<argv, stdout, lint, exit_status, exit_code, ser_in, ser_out>>

(* process lines 130-137 and main lines 42-44: wait returns the child's    *)
(* status and the run ends with the code derived from it.                  *)
ProcessWait ==
    /\ pc = "waiting"
    /\ \E status \in ExitStatuses :
          /\ exit_status' = Some(status)
          /\ exit_code' = Some(ProcessResult(status))
    /\ pc' = "exited"
    /\ UNCHANGED <<argv, stdout, lint, old_args, rpl_cmd, child, spawns, panic,
                   ser_in, ser_out>>

(* process line 131: wait itself fails and expect panics *)
ProcessWaitFail ==
    /\ pc = "waiting"
    /\ pc' = "panicked"
    /\ panic' = Some("failed to wait for cargo?")
    /\ UNCHANGED <<argv, stdout, lint, old_args, rpl_cmd, child, spawns, exit_status,
                   exit_code, ser_in, ser_out>>

Next ==
    \/ MainArgsPanic
    \/ MainHelp
    \/ MainVersion
    \/ MainExplain
    \/ ProcessSpawn
    \/ ProcessWait
    \/ ProcessWaitFail

Spec == Init /\ [][Next]_vars

----------------------------------------------------------------------------
(* RplCmd::new and into_std_cmd called directly on a token sequence, as the *)
(* functions of `mod tests` call them.                                      *)

InitNew ==
    /\ old_args \in SeqsUpTo(NewTokens, MaxLen)
    /\ pc = "new"
    /\ argv = <<>>
    /\ stdout = ""
    /\ lint = None
    /\ rpl_cmd = None
    /\ child = None
    /\ spawns = 0
    /\ exit_status = None
    /\ exit_code = None
    /\ panic = None
    /\ ser_in = <<>>
    /\ ser_out = None

CallNew ==
    /\ pc = "new"
    /\ rpl_cmd' = Some(RplCmdNew(old_args))
    /\ pc' = "built"
    /\ UNCHANGED <<argv, stdout, lint, old_args, child, spawns, exit_status,
                   exit_code, panic, ser_in, ser_out>>

CallIntoStdCmd ==
    /\ pc = "built"
    /\ \E env_cargo \in EnvCargo, current_exe \in CurrentExeResults :
          LET built == IntoStdCmd(Unwrap(rpl_cmd), env_cargo, current_exe)
          IN IF built.ok
             THEN child' = Some(built.cmd) /\ pc' = "cmd" /\ panic' = panic
             ELSE child' = child /\ pc' = "panicked" /\ panic' = Some(built.panic)
    /\ UNCHANGED <<argv, stdout, lint, old_args, rpl_cmd, spawns, exit_status,
                   exit_code, ser_in, ser_out>>

NextNew ==
    \/ CallNew
    \/ CallIntoStdCmd

SpecNew == InitNew /\ [][NextNew]_vars

----------------------------------------------------------------------------
(* The RPL_ARGS string of into_std_cmd for two analysis-argument lists.    *)
(* Any list of tokens can be the rpl_args of an RplCmd: RplCmd::new        *)
(* forwards whatever follows "--" unchanged.                               *)

InitSer ==
    /\ ser_in \in SeqsUpTo(SerWords, MaxSerLen) \X SeqsUpTo(SerWords, MaxSerLen)
    /\ ser_out = None
    /\ pc = "ser"
    /\ argv = <<>>
    /\ stdout = ""
    /\ lint = None
    /\ old_args = <<>>
    /\ rpl_cmd = None
    /\ child = None
    /\ spawns = 0
    /\ exit_status = None
    /\ exit_code = None
    /\ panic = None

(* into_std_cmd of an RplCmd whose rpl_args is list *)
RplArgsCmd(list, current_exe) ==
    IntoStdCmd([cargo_subcommand |-> "check", args |-> <<>>, rpl_args |-> list],
               None, current_exe)

Serialize ==
    /\ pc = "ser"
    /\ \E current_exe \in CurrentExeResults :
          LET a == RplArgsCmd(ser_in[1], current_exe)
              b == RplArgsCmd(ser_in[2], current_exe)
          IN IF a.ok /\ b.ok
             THEN /\ ser_out' = Some(<<a.cmd.RPL_ARGS, b.cmd.RPL_ARGS>>)
                  /\ pc' = "serialized"
                  /\ panic' = panic
             ELSE /\ ser_out' = ser_out
                  /\ pc' = "panicked"
                  /\ panic' = Some(a.panic)
    /\ UNCHANGED <<argv, stdout, lint, old_args, rpl_cmd, child, spawns, exit_status,
                   exit_code, ser_in>>

NextSer == Serialize

SpecSer == InitSer /\ [][NextSer]_vars

----------------------------------------------------------------------------
(* Vocabulary of the properties, stated from the command-line contract     *)
(* and independent of the operators above.                                 *)

HelpFlags == {"-h", "--help"}
VersionFlags == {"-V", "--version"}
RouterFlags == HelpFlags \cup VersionFlags \cup {"--explain"}

Range(s) == {s[i] : i \in 1..Len(s)}
Count(s, t) == Cardinality({i \in 1..Len(s) : s[i] = t})

(* index of the first "--" of s, Len(s) + 1 when there is none *)
FirstSep(s) ==
    IF "--" \in Range(s)
    THEN CHOOSE i \in 1..Len(s) : s[i] = "--" /\ \A j \in 1..(i - 1) : s[j] # "--"
    ELSE Len(s) + 1
HasSep(s) == FirstSep(s) <= Len(s)
Before(s) == SubSeq(s, 1, FirstSep(s) - 1)
After(s) == SubSeq(s, FirstSep(s) + 1, Len(s))

IsForwarded(t) == t \notin {"--fix", "--no-deps"}
IsNoDeps(t) == t = "--no-deps"

(* s contains sub as a contiguous piece *)
Contains(s, sub) ==
    \E i \in 1..(Len(s) - Len(sub) + 1) : SubSeq(s, i, i + Len(sub) - 1) = sub

(* the ASCII lower-casing of each token of Tokens *)
LowerOf(t) == IF t = "Foo" THEN "foo" ELSE IF t = "-V" THEN "-v" ELSE t

Built == rpl_cmd # None
EarlyExit == pc = "exited" /\ rpl_cmd = None

----------------------------------------------------------------------------
(* C1: every token given to RplCmd::new has exactly one destination: for   *)
(* each token t, its occurrences in args plus those in rpl_args plus those *)
(* consumed (each "--fix" before the separator, which selects the          *)
(* subcommand, and the separator itself) equal its occurrences in the      *)
(* input, except for at most one additional "--no-deps" in rpl_args.       *)
C1_Accounting ==
    Built =>
      LET r == Unwrap(rpl_cmd)
          consumed(t) == IF t = "--fix" THEN Count(Before(old_args), "--fix")
                         ELSE IF t = "--" /\ HasSep(old_args) THEN 1 ELSE 0
      IN /\ Range(r.args) \cup Range(r.rpl_args) \subseteq Range(old_args) \cup {"--no-deps"}
         /\ \E synth \in {0, 1} :
              \A t \in Range(old_args) \cup {"--no-deps"} :
                 Count(r.args, t) + Count(r.rpl_args, t) + consumed(t)
                    = Count(old_args, t) + (IF t = "--no-deps" THEN synth ELSE 0)
         /\ (Count(Before(old_args), "--fix") > 0 => r.cargo_subcommand = "fix")

C1_Witness ==
    /\ Built
    /\ old_args = <<"Foo", "--fix", "--", "bar">>
    /\ Unwrap(rpl_cmd).args = <<"Foo">>
    /\ Unwrap(rpl_cmd).rpl_args = <<"bar", "--no-deps">>

----------------------------------------------------------------------------
(* C2 as stated: the subcommand is "fix" exactly when "--fix" occurs       *)
(* anywhere in the input of RplCmd::new.                                   *)
C2_FixAnywhere ==
    Built => (Unwrap(rpl_cmd).cargo_subcommand = "fix" <=> "--fix" \in Range(old_args))

(* C2 amended: the subcommand is "fix" exactly when "--fix" occurs before  *)
(* the first "--" of the input, at whatever position there; otherwise it   *)
(* is "check".                                                             *)
C2_FixBeforeSeparator ==
    Built =>
      /\ Unwrap(rpl_cmd).cargo_subcommand \in {"fix", "check"}
      /\ Unwrap(rpl_cmd).cargo_subcommand = "fix" <=> "--fix" \in Range(Before(old_args))

C2_Witness ==
    /\ Built
    /\ Len(old_args) >= 3
    /\ old_args[1] # "--fix"
    /\ old_args[3] = "--fix"
    /\ ~HasSep(old_args)
    /\ Unwrap(rpl_cmd).cargo_subcommand = "fix"

----------------------------------------------------------------------------
(* C3 as stated, its part about the router: a run that exits early has a   *)
(* help, version or explain flag that does not follow the first "--" of    *)
(* the tokens after the two leading ones.                                  *)
C3_NoEarlyExitAfterSeparator ==
    EarlyExit =>
      \E i \in 1..Len(argv) :
         /\ argv[i] \in RouterFlags
         /\ i <= 2 + FirstSep(Skip(argv, 2))

(* C3 amended: in a run that reaches RplCmd::new, the tokens after the     *)
(* first "--" are not interpreted by it: the subcommand and args are       *)
(* decided by the tokens before the "--" alone, and the tokens after it    *)
(* stand in rpl_args in their order, the "--" excluded, right behind the   *)
(* "--no-deps" entries given before it.  The router, however, reads the    *)
(* whole raw list: a help, version or explain flag after "--" still ends   *)
(* the run in the router (by its early exit or by a panic of its own),     *)
(* with no command built and nothing spawned.                              *)
C3_AfterSeparator ==
    /\ Built =>
         LET r == Unwrap(rpl_cmd)
             lead == Count(Before(old_args), "--no-deps")
         IN /\ old_args = Skip(argv, 2)
            /\ r.cargo_subcommand = "fix" <=> "--fix" \in Range(Before(old_args))
            /\ r.args = SelectSeq(Before(old_args), IsForwarded)
            /\ SubSeq(r.rpl_args, 1, lead) = SelectSeq(Before(old_args), IsNoDeps)
            /\ SubSeq(r.rpl_args, lead + 1, lead + Len(After(old_args))) = After(old_args)
            /\ Len(r.rpl_args) \in {lead + Len(After(old_args)),
                                    lead + Len(After(old_args)) + 1}
    /\ (pc # "main" /\ Range(argv) \cap RouterFlags # {}) =>
          /\ pc \in {"exited", "panicked"}
          /\ rpl_cmd = None
          /\ spawns = 0
          /\ pc = "exited" => exit_code = Some(0)

C3_Witness ==
    /\ Built
    /\ Before(old_args) = <<>>
    /\ After(old_args) = <<"--fix", "--">>
    /\ Unwrap(rpl_cmd).cargo_subcommand = "check"
    /\ Unwrap(rpl_cmd).rpl_args = After(old_args)

----------------------------------------------------------------------------
(* C4: when the subcommand is "fix" and the input has no "--no-deps",      *)
(* rpl_args holds exactly one "--no-deps"; when the subcommand is "check"  *)
(* nothing is synthesized: rpl_args is the "--no-deps" entries given       *)
(* before the separator followed by the tokens after it.                   *)
C4_FixImpliesNoDeps ==
    Built =>
      LET r == Unwrap(rpl_cmd) IN
      /\ (r.cargo_subcommand = "fix" /\ Count(old_args, "--no-deps") = 0)
            => Count(r.rpl_args, "--no-deps") = 1
      /\ r.cargo_subcommand = "check"
            => r.rpl_args = SelectSeq(Before(old_args), IsNoDeps) \o After(old_args)

C4_Witness ==
    /\ Built
    /\ old_args = <<"Foo", "--fix", "--", "bar">>
    /\ Unwrap(rpl_cmd).cargo_subcommand = "fix"
    /\ Count(Unwrap(rpl_cmd).rpl_args, "--no-deps") = 1

----------------------------------------------------------------------------
(* C5: when the subcommand is "fix" and "--no-deps" is given at least      *)
(* once, before or after the separator, rpl_args holds as many             *)
(* "--no-deps" entries as the input does.                                  *)
C5_NoDepsNotDuplicated ==
    Built =>
      LET r == Unwrap(rpl_cmd) IN
      (r.cargo_subcommand = "fix" /\ Count(old_args, "--no-deps") >= 1)
         => Count(r.rpl_args, "--no-deps") = Count(old_args, "--no-deps")

C5_Witness ==
    /\ Built
    /\ old_args = <<"--fix", "--", "--no-deps">>
    /\ Unwrap(rpl_cmd).rpl_args = <<"--no-deps">>

----------------------------------------------------------------------------
PrintPanic == Some("failed printing to stdout")

(* the lines the router prints: the help text, which ends in a newline,    *)
(* and the version text, which holds none, each with a closing newline     *)
HelpLine == "help\n\n"
VersionLine == "version\n"

IsPrefix(a, b) == Len(a) <= Len(b) /\ SubSeq(b, 1, Len(a)) = a
IsProperPrefix(a, b) == IsPrefix(a, b) /\ a # b
UnicodePanic == Some("argument is not valid Unicode")

(* C6 as stated: a run whose raw argument list holds a help, version or    *)
(* explain flag at any position never builds a command and never spawns,   *)
(* and once it has left main it has exited with code 0; a spawn happens    *)
(* only in runs without any of these flags.                                *)
C6_AlwaysSuccess ==
    /\ Range(argv) \cap RouterFlags # {} =>
          /\ rpl_cmd = None
          /\ child = None
          /\ spawns = 0
          /\ pc \in {"main", "exited"}
          /\ pc = "exited" => exit_code = Some(0)
    /\ spawns > 0 => Range(argv) \cap RouterFlags = {}

(* C6 amended: a run whose raw argument list holds a help, version or      *)
(* explain flag at any position never builds a command and never spawns;   *)
(* once it has left main it has either exited with code 0 or panicked in   *)
(* the router, without an exit code of its own: on a failed write of the   *)
(* help or version line, or on an argument that is not valid Unicode read  *)
(* before a help flag.  What the run has written is a leading part of the  *)
(* version line when a version flag and no help flag is given, and of the  *)
(* help line otherwise; after a failed write of the help line a part of it *)
(* is missing, while the version line can be out in full even then.  A     *)
(* spawn happens only in runs without any of these flags.                  *)
C6_RouterPrecedence ==
    /\ Range(argv) \cap RouterFlags # {} =>
          /\ rpl_cmd = None
          /\ child = None
          /\ spawns = 0
          /\ pc \in {"main", "exited", "panicked"}
          /\ pc = "exited" => (exit_code = Some(0) /\ panic = None)
          /\ pc = "panicked" => (exit_code = None /\ panic \in {PrintPanic, UnicodePanic})
          /\ panic = UnicodePanic => NonUnicode \in Range(argv)
          /\ IF Range(argv) \cap HelpFlags = {} /\ Range(argv) \cap VersionFlags # {}
             THEN IsPrefix(stdout, VersionLine)
             ELSE /\ IsPrefix(stdout, HelpLine)
                  /\ panic = PrintPanic => IsProperPrefix(stdout, HelpLine)
    /\ spawns > 0 => Range(argv) \cap RouterFlags = {}

C6_Witness ==
    /\ Len(argv) = 4
    /\ argv[3] = "--"
    /\ argv[4] = "-h"
    /\ pc = "exited"
    /\ exit_code = Some(0)
    /\ stdout = HelpLine
    /\ spawns = 0

----------------------------------------------------------------------------
(* C7: once wait has returned the child's status the run has exited; its   *)
(* code is 0 exactly when the child succeeded, the child's code c when the *)
(* child failed with c, and -1 when the child had no code.  A run that     *)
(* panicked (launch or wait failure among others) has no exit code, a      *)
(* launch failure leaves no child status, and spawn is called at most      *)
(* once.                                                                   *)
C7_ExitCodePropagation ==
    /\ exit_status # None =>
          LET st == Unwrap(exit_status) IN
          /\ pc = "exited"
          /\ exit_code # None
          /\ Unwrap(exit_code) = 0 <=> st.code = Some(0)
          /\ (st.code # None /\ st.code # Some(0)) => exit_code = st.code
          /\ st.code = None => exit_code = Some(-1)
    /\ pc = "panicked" => (exit_code = None /\ panic # None)
    /\ panic = Some("could not run cargo") =>
          (pc = "panicked" /\ spawns = 1 /\ exit_status = None)
    /\ spawns <= 1

C7_Witness ==
    /\ exit_status = Some([code |-> Some(2)])
    /\ exit_code = Some(2)
    /\ spawns = 1

----------------------------------------------------------------------------
(* C8 as stated: in a run with "--explain" and no help or version flag,    *)
(* once main is left the run has exited with code 0 without spawning; when *)
(* a token follows the first "--explain" it is the lint name, lower-cased, *)
(* and nothing is printed; when none follows, the help text is printed.    *)
C8_NoErrorOutcome ==
    ( /\ "--explain" \in Range(argv)
      /\ Range(argv) \cap (HelpFlags \cup VersionFlags) = {}
      /\ pc # "main" ) =>
       LET p == CHOOSE i \in 1..Len(argv) :
                   argv[i] = "--explain" /\ \A j \in 1..(i - 1) : argv[j] # "--explain"
       IN /\ pc = "exited"
          /\ exit_code = Some(0)
          /\ spawns = 0
          /\ p < Len(argv) => (lint = Some(LowerOf(argv[p + 1])) /\ stdout = "")
          /\ p = Len(argv) => (lint = None /\ stdout = HelpLine)

(* C8 amended: in a run with "--explain" and no help or version flag,      *)
(* nothing is ever spawned, and once main is left: if an argument is not   *)
(* valid Unicode the run has panicked reading the arguments; otherwise,    *)
(* when a token follows the first "--explain" it is the lint name,         *)
(* lower-cased, nothing is printed and the run has exited with code 0;     *)
(* when none follows, the help text is written: the run has exited with    *)
(* code 0, with the help text printed in full or, on a broken pipe, only   *)
(* in part, or it has panicked on the failed write, with only a part of    *)
(* the help text printed.                                                  *)
C8_Explain ==
    ( /\ "--explain" \in Range(argv)
      /\ Range(argv) \cap (HelpFlags \cup VersionFlags) = {}
      /\ pc # "main" ) =>
       LET p == CHOOSE i \in 1..Len(argv) :
                   argv[i] = "--explain" /\ \A j \in 1..(i - 1) : argv[j] # "--explain"
           unicode == NonUnicode \notin Range(argv)
       IN /\ spawns = 0
          /\ rpl_cmd = None
          /\ ~unicode =>
                (pc = "panicked" /\ panic = UnicodePanic /\ lint = None /\ stdout = "")
          /\ (unicode /\ p < Len(argv)) =>
                /\ pc = "exited"
                /\ exit_code = Some(0)
                /\ lint = Some(LowerOf(argv[p + 1]))
                /\ stdout = ""
          /\ (unicode /\ p = Len(argv)) =>
                /\ lint = None
                /\ \/ pc = "exited" /\ exit_code = Some(0) /\ IsPrefix(stdout, HelpLine)
                   \/ pc = "panicked" /\ exit_code = None /\ panic = PrintPanic
                                      /\ IsProperPrefix(stdout, HelpLine)

C8_Witness ==
    /\ pc = "exited"
    /\ Len(argv) = 4
    /\ argv[2] = "--explain"
    /\ argv[3] = "Foo"
    /\ argv[4] = "--explain"
    /\ lint = Some("foo")
    /\ stdout = ""

----------------------------------------------------------------------------
(* C9 as stated: two different lists of analysis arguments never have the  *)
(* same RPL_ARGS string.                                                   *)
C9_Injective ==
    (ser_out # None /\ ser_in[1] # ser_in[2]) => Unwrap(ser_out)[1] # Unwrap(ser_out)[2]

SeparatorStem == "__RPL_HACKERY"

NoStem(list) == \A i \in 1..Len(list) : ~Contains(list[i], SeparatorStem)

(* C9 amended: two different lists of analysis arguments none of whose     *)
(* entries contains the text "__RPL_HACKERY" (the separator without its    *)
(* two closing underscores) never have the same RPL_ARGS string.           *)
C9_InjectiveWithoutStem ==
    (ser_out # None /\ ser_in[1] # ser_in[2] /\ NoStem(ser_in[1]) /\ NoStem(ser_in[2]))
       => Unwrap(ser_out)[1] # Unwrap(ser_out)[2]

C9_Witness ==
    /\ ser_out # None
    /\ ser_in[1] = <<"x", "RPL_HACKERY__y">>
    /\ ser_in[2] = <<"x", "y">>
    /\ Unwrap(ser_out)[1] = "x__RPL_HACKERY__RPL_HACKERY__y__RPL_HACKERY__"
    /\ Unwrap(ser_out)[2] = "x__RPL_HACKERY__y__RPL_HACKERY__"

----------------------------------------------------------------------------
(* C10: the command's argument list is the subcommand followed by the      *)
(* tokens before the first "--" that are neither "--fix" nor "--no-deps",  *)
(* in their order and with repeats kept, and by nothing else.              *)
C10_CommandArgs ==
    child # None =>
      /\ Unwrap(child).args
            = <<Unwrap(rpl_cmd).cargo_subcommand>> \o SelectSeq(Before(old_args), IsForwarded)
      /\ Unwrap(rpl_cmd).args = SelectSeq(Before(old_args), IsForwarded)

C10_Witness ==
    /\ child # None
    /\ old_args = <<"Foo", "--fix", "bar", "Foo">>
    /\ Unwrap(child).args = <<"fix", "Foo", "bar", "Foo">>

====
